---- MODULE Spec2Model ----
(***************************************************************************)
(* State-machine model of the concurrent, rate-limited MET fetcher of      *)
(* backend/api/met_client.py (the same code is duplicated in               *)
(* backend/scripts/sync_met_artworks.py).                                  *)
(*                                                                         *)
(* One asyncio event loop runs every coroutine, so an action is the code   *)
(* a coroutine executes between two suspension points (await).             *)
(* Time is counted in ticks of 300 ms; only differences of clock readings  *)
(* matter to the code, so the model keeps the saturated difference         *)
(* loop.time() - last_request_time instead of the two absolute values.     *)
(***************************************************************************)
EXTENDS Integers, Sequences, FiniteSets, TLC

\* ---------------------------------------------------------------- bounds
MaxListing == 2          \* longest objectIDs list the remote returns
MaxLimit == 2            \* largest limit_per_department
MaxConcurrent == 2       \* largest max_concurrent the gate is built with
MaxDetailFetches == 2    \* most get_object_details calls of one run
MaxRows == 3             \* most rows of a DataFrame handed to the cleaning
MaxBodyOps == 3          \* most database operations of a with-body

\* ------------------------------------------------------- program constants
DELAY_BETWEEN_REQUESTS == 1     \* 0.3 s, in ticks of 300 ms
ScriptDepartments == <<1, 11>>  \* the list the sync script passes
ScriptLimit == 20               \* the limit_per_department the sync script passes
batch_size == 500               \* rows per bulk insert or update

VARIABLES
    department_ids,   \* department_ids of the run
    limit,            \* limit_per_department of the run
    max_concurrent,   \* value the Semaphore was constructed with
    sem_value,        \* RateLimiter.semaphore._value (free slots)
    time_since_last,  \* loop.time() - last_request_time, saturated at the delay
    sleep_left,       \* per task: ticks left of the asyncio.sleep in acquire()
    pc,               \* per fetch task: position in acquire()/request
    response,         \* per fetch task: how the remote answered (status, kind of body)
    listed,           \* per department: len(object_ids) that get_object_ids found
    object_ids,       \* per department: object_ids after object_ids[:limit]
    dept_pc,          \* per department: position of fetch_department_objects
    objects_data,     \* per department: list returned by fetch_department_objects
    main_pc,          \* position of fetch_all_departments
    all_objects,      \* list returned by fetch_all_departments
    grants,           \* number of times acquire() has returned
    completion_order, \* departments in the order their fetch_department_objects returned
    detail_order,     \* per department, its detail fetches in the order they completed
    raw_df,           \* the DataFrame fetch_museum_data returned (rows in order)
    df,               \* the DataFrame after clean_and_validate_data
    clean_pc,         \* position of clean_and_validate_data
    stored,           \* met_object_ids in the artworks table before save_to_database
    session,          \* the SQLAlchemy session get_db_session yields
    committed,        \* changes made durable by a commit
    with_pc,          \* position of get_db_session
    raising,          \* an exception is propagating
    body,             \* database operations of a with-body, in order
    body_pc,          \* next operation of body
    save_pc,          \* position of save_to_database
    new_records,      \* save_to_database: rows to insert
    update_records,   \* save_to_database: rows to update
    stats,            \* save_to_database: the statistics it returns
    batch_i,          \* save_to_database: i of the batch loops
    batch,            \* save_to_database: the batch last handed to process_batch
    review_text,      \* review_content: the words of the review the LLM returned
    qa_response,      \* review_content: the QAResponse it returns
    qa_pc             \* position of review_content

vars == <<department_ids, limit, max_concurrent, sem_value, time_since_last, sleep_left, pc,
          response, listed, object_ids, dept_pc, objects_data, main_pc,
          all_objects, grants, completion_order, detail_order, raw_df, df, clean_pc,
          stored, session, committed, with_pc, raising, body, body_pc,
          save_pc, new_records, update_records, stats, batch_i, batch,
          review_text, qa_response, qa_pc>>

\* what the steps after the fetch work on; the fetch leaves it alone
cleaning == <<raw_df, df, clean_pc>>
saving == <<save_pc, new_records, update_records, stats, batch_i, batch>>
persistence == <<stored, session, committed, with_pc, raising, body, body_pc, saving>>
qa == <<review_text, qa_response, qa_pc>>
downstream == <<cleaning, persistence, qa>>

\* ------------------------------------------------------------------ tasks
\* a department is named by its position in department_ids
MaxDepartments == Len(ScriptDepartments)
Departments == 1..Len(department_ids)
\* <<d, 0>> is the get_object_ids call of department d,
\* <<d, i>> (i >= 1) the get_object_details call of its i-th retained id.
ListingTask(d) == <<d, 0>>
DetailTask(d, i) == <<d, i>>
Tasks == (1..MaxDepartments) \X (0..MaxLimit)
\* two object ids: a listing can repeat an id and can order two ids either way
ItemIds == {1, 2}

Min(a, b) == IF a < b THEN a ELSE b
Max(a, b) == IF a > b THEN a ELSE b

\* all sequences over S of length at most n
RECURSIVE SeqsUpTo(_, _)
SeqsUpTo(S, n) ==
    IF n = 0 THEN {<<>>}
    ELSE LET shorter == SeqsUpTo(S, n - 1)
         IN  shorter \cup {Append(s, x) : s \in {q \in shorter : Len(q) = n - 1}, x \in S}

\* -------------------------------------------------------- remote outcomes
\* fault: session.get raised (connection error, timeout).
\* body of a listing response:
\*   "unparseable" response.json() raises
\*   "non_object"  JSON that is not an object (no .get)
\*   "no_key"      JSON object without "objectIDs"
\*   "null_ids"    {"objectIDs": null}
\*   "id_list"     {"objectIDs": [ids]}
\*   "id_object"   {"objectIDs": {...}} (a JSON object where the list belongs)
NoResponse == [fault |-> FALSE, status |-> 0, body |-> "pending"]
TransportFault == [fault |-> TRUE, status |-> 0, body |-> "none"]
\* status and kind of body of an answer, without the ids it lists
Answer(r) == [fault |-> r.fault, status |-> r.status, body |-> r.body]

ListingBodies == {"unparseable", "non_object", "no_key", "null_ids", "id_object"}
ListingResponses ==
    {[fault |-> TRUE, status |-> 0, body |-> "none", ids |-> <<>>]}
    \cup {[fault |-> FALSE, status |-> s, body |-> b, ids |-> <<>>] :
            s \in {200, 404}, b \in ListingBodies}
    \cup {[fault |-> FALSE, status |-> s, body |-> "id_list", ids |-> l] :
            s \in {200, 404}, l \in SeqsUpTo(ItemIds, MaxListing)}

\* body of a detail response (read only when the status is 200):
\*   "record"      non-empty JSON object
\*   "empty"       falsy JSON other than null ({}, [], 0, "", false)
\*   "array"       truthy JSON that is not an object
\*   "unparseable" response.json() raises, or the body is null, which json()
\*                 parses to None: the caller gets None either way
DetailBodies == {"record", "empty", "array", "unparseable"}
DetailResponses ==
    {TransportFault}
    \cup {[fault |-> FALSE, status |-> 404, body |-> "error_page"]}
    \cup {[fault |-> FALSE, status |-> 200, body |-> b] : b \in DetailBodies}

\* ------------------------------------------------------ pure code paths
\* (a slice that keeps every entry)
PySliceAll(seq, n) == seq

\* (a slice that keeps the last n entries instead of the first)
PySliceTail(seq, n) == SubSeq(seq, Len(seq) - Min(n, Len(seq)) + 1, Len(seq))

\* (a slice that keeps one entry too many)
PySliceOffByOne(seq, n) == SubSeq(seq, 1, Min(n + 1, Len(seq)))

\* Python's seq[:n]: the first n entries for n >= 0, all but the last -n for n < 0.
PySlice(seq, n) ==
    IF n >= 0 THEN SubSeq(seq, 1, Min(n, Len(seq)))
    ELSE SubSeq(seq, 1, Max(Len(seq) + n, 0))

\* What get_object_ids returns for a remote answer. The status is never read;
\* every exception is caught and yields []. kind "list" is a Python list,
\* kind "dict" the dict a JSON object under "objectIDs" parses to.
get_object_ids(r) ==
    IF r.fault THEN [kind |-> "list", ids |-> <<>>]
    ELSE IF r.body \in {"unparseable", "non_object", "null_ids", "no_key"}
         THEN [kind |-> "list", ids |-> <<>>]
    ELSE IF r.body = "id_object" THEN [kind |-> "dict", ids |-> <<>>]
    ELSE [kind |-> "list", ids |-> r.ids]

\* len() of what get_object_ids returns; the dict has one key
PyLen(v) == IF v.kind = "dict" THEN 1 ELSE Len(v.ids)

\* (a fetcher that hands on the body it could not parse)
get_object_details_unparsed(r) ==
    IF r.fault THEN "None"
    ELSE IF r.status = 200 THEN r.body
    ELSE "None"

\* (a fetcher that reads the body whatever the status)
get_object_details_any_status(r) ==
    IF r.fault \/ r.body = "unparseable" THEN "None" ELSE r.body

\* What get_object_details returns: "None", or the parsed JSON value
\* ("record", "empty", "array").
get_object_details(r) ==
    IF r.fault THEN "None"
    ELSE IF r.status = 200
         THEN IF r.body = "unparseable" THEN "None" ELSE r.body
    ELSE "None"

\* (a loop that stops at the first falsy result instead of skipping it)
RECURSIVE CollectObjectsUntilFalsy(_, _)
CollectObjectsUntilFalsy(ids, results) ==
    IF ids = <<>> \/ Head(results) \in {"None", "empty"}
    THEN [raised |-> FALSE, data |-> <<>>]
    ELSE IF Head(results) = "array" THEN [raised |-> TRUE, data |-> <<>>]
    ELSE LET rest == CollectObjectsUntilFalsy(Tail(ids), Tail(results))
         IN  IF rest.raised THEN rest
             ELSE [raised |-> FALSE,
                   data |-> <<[met_object_id |-> Head(ids)]>> \o rest.data]

\* The loop of fetch_department_objects over the gathered results, in order:
\* a falsy result is skipped, a dict appends its record, any other truthy
\* value has no .get and raises AttributeError. The record's met_object_id is
\* the payload's objectID, which the remote sets to the id it was asked for.
RECURSIVE CollectObjects(_, _)
CollectObjects(ids, results) ==
    IF ids = <<>> THEN [raised |-> FALSE, data |-> <<>>]
    ELSE IF Head(results) = "array" THEN [raised |-> TRUE, data |-> <<>>]
    ELSE LET rest == CollectObjects(Tail(ids), Tail(results))
         IN  IF rest.raised THEN rest
             ELSE IF Head(results) = "record"
                  THEN [raised |-> FALSE,
                        data |-> <<[met_object_id |-> Head(ids)]>> \o rest.data]
             ELSE rest

\* (a loop that takes the departments as they completed, not as they were given)
RECURSIVE ExtendAsCompleted(_, _)
ExtendAsCompleted(data, n) ==
    IF n = 0 THEN <<>>
    ELSE ExtendAsCompleted(data, n - 1) \o data[completion_order[n]]

\* (a loop that leaves out a record the output already holds)
RECURSIVE ExtendDistinct(_, _)
ExtendDistinct(data, n) ==
    IF n = 0 THEN <<>>
    ELSE LET sofar == ExtendDistinct(data, n - 1)
             new(rec) == \A k \in 1..Len(sofar) : sofar[k] # rec
         IN  sofar \o SelectSeq(data[n], new)

\* (a loop that keeps only the last department)
ExtendLastOnly(data, n) == IF n = 0 THEN <<>> ELSE data[n]

\* (a loop that returns after the first department)
ExtendFirstOnly(data, n) == IF n = 0 THEN <<>> ELSE data[1]

\* all_objects.extend(dept_objects) over the gathered departments, in input order
RECURSIVE ExtendAll(_, _)
ExtendAll(data, n) ==
    IF n = 0 THEN <<>> ELSE ExtendAll(data, n - 1) \o data[n]

\* before clean_and_validate_data is called there is no DataFrame yet
NoSession == [state |-> "none", active |-> FALSE, begun |-> FALSE, pending |-> {},
              rollbacks |-> 0]

\* save_to_database has not been called and no session is open
PersistenceIdle ==
    /\ stored = {}
    /\ session = NoSession
    /\ committed = {}
    /\ with_pc = "none"
    /\ raising = FALSE
    /\ body = <<>>
    /\ body_pc = 1
    /\ save_pc = "idle"
    /\ new_records = <<>>
    /\ update_records = <<>>
    /\ stats = [inserted |-> 0, updated |-> 0, errors |-> 0, skipped |-> 0]
    /\ batch_i = 0
    /\ batch = <<>>

\* review_content returns None when it produces no QAResponse
NoQAResponse ==
    [qa_status |-> "none", factual_accuracy |-> FALSE, museum_tone |-> FALSE,
     readability |-> FALSE, no_problematic_language |-> FALSE, notes |-> {},
     needs_human_review |-> FALSE]

\* review_content has not been called
QaIdle ==
    /\ review_text = {}
    /\ qa_response = NoQAResponse
    /\ qa_pc = "idle"

DownstreamIdle ==
    /\ raw_df = <<>>
    /\ df = <<>>
    /\ clean_pc = "idle"
    /\ PersistenceIdle
    /\ QaIdle

\* ------------------------------------------------------------------ state
Init ==
    \* the script's list, or a shorter run over its first departments
    /\ department_ids \in {SubSeq(ScriptDepartments, 1, n) : n \in 1..MaxDepartments}
    /\ limit \in 0..MaxLimit
    /\ Len(department_ids) * limit <= MaxDetailFetches
    /\ max_concurrent \in 1..MaxConcurrent
    /\ sem_value = max_concurrent
    \* last_request_time = 0 and loop.time(), the monotonic clock, is past the delay
    /\ time_since_last = DELAY_BETWEEN_REQUESTS
    /\ sleep_left = [t \in Tasks |-> 0]
    \* gather() has started every fetch_department_objects, each of which is
    \* about to call rate_limiter.acquire() in get_object_ids
    /\ pc = [t \in Tasks |-> IF t[1] \in Departments /\ t[2] = 0 THEN "waiting" ELSE "none"]
    /\ response = [t \in Tasks |-> NoResponse]
    /\ listed = [d \in Departments |-> 0]
    /\ object_ids = [d \in Departments |-> <<>>]
    /\ dept_pc = [d \in Departments |-> "listing"]
    /\ objects_data = [d \in Departments |-> <<>>]
    /\ main_pc = "gather"
    /\ all_objects = <<>>
    /\ grants = 0
    /\ completion_order = <<>>
    /\ detail_order = [d \in Departments |-> <<>>]
    /\ DownstreamIdle

\* ------------------------------------------------------------ RateLimiter
\* semaphore.acquire() suspends the caller while no slot is free
SemaphoreNeverLocked == FALSE
SemaphoreLocked == sem_value = 0

\* (an acquire() on a gate that every department owns for itself: only the
\* slots taken by the caller's own department count)
AcquireOwnGate(t) ==
    /\ pc[t] = "waiting"
    /\ Cardinality({u \in Tasks : u[1] = t[1] /\ pc[u] \in {"sleeping", "request"}})
          < max_concurrent
    /\ sem_value' = sem_value - 1
    /\ IF time_since_last < DELAY_BETWEEN_REQUESTS
       THEN /\ pc' = [pc EXCEPT ![t] = "sleeping"]
            /\ sleep_left' = [sleep_left EXCEPT ![t] = DELAY_BETWEEN_REQUESTS - time_since_last]
            /\ UNCHANGED <<time_since_last, grants>>
       ELSE /\ pc' = [pc EXCEPT ![t] = "request"]
            /\ time_since_last' = 0
            /\ grants' = grants + 1
            /\ UNCHANGED sleep_left
    /\ UNCHANGED <<department_ids, limit, max_concurrent, response, listed,
                   object_ids, dept_pc, objects_data, main_pc, all_objects, completion_order, detail_order, downstream>>

\* (an acquire() that a detail fetch can call before the listing has returned)
AcquireBeforeListing(t) ==
    /\ \/ pc[t] = "waiting"
       \/ pc[t] = "none" /\ t[1] \in Departments /\ t[2] >= 1 /\ t[2] <= limit
    /\ ~SemaphoreLocked
    /\ sem_value' = sem_value - 1
    /\ IF time_since_last < DELAY_BETWEEN_REQUESTS
       THEN /\ pc' = [pc EXCEPT ![t] = "sleeping"]
            /\ sleep_left' = [sleep_left EXCEPT ![t] = DELAY_BETWEEN_REQUESTS - time_since_last]
            /\ UNCHANGED <<time_since_last, grants>>
       ELSE /\ pc' = [pc EXCEPT ![t] = "request"]
            /\ time_since_last' = 0
            /\ grants' = grants + 1
            /\ UNCHANGED sleep_left
    /\ UNCHANGED <<department_ids, limit, max_concurrent, response, listed,
                   object_ids, dept_pc, objects_data, main_pc, all_objects, completion_order, detail_order, downstream>>

\* (an acquire() of detail fetches that are awaited one after the other: a
\* fetch starts only when the fetch of the entry before it is done)
AcquireInTurn(t) ==
    /\ pc[t] = "waiting"
    /\ t[2] >= 2 => pc[<<t[1], t[2] - 1>>] = "done"
    /\ ~SemaphoreLocked
    /\ sem_value' = sem_value - 1
    /\ IF time_since_last < DELAY_BETWEEN_REQUESTS
       THEN /\ pc' = [pc EXCEPT ![t] = "sleeping"]
            /\ sleep_left' = [sleep_left EXCEPT ![t] = DELAY_BETWEEN_REQUESTS - time_since_last]
            /\ UNCHANGED <<time_since_last, grants>>
       ELSE /\ pc' = [pc EXCEPT ![t] = "request"]
            /\ time_since_last' = 0
            /\ grants' = grants + 1
            /\ UNCHANGED sleep_left
    /\ UNCHANGED <<department_ids, limit, max_concurrent, response, listed,
                   object_ids, dept_pc, objects_data, main_pc, all_objects, completion_order, detail_order, downstream>>

\* (an acquire() that sleeps for the rest of the delay before it takes a slot)
AcquireSleepFirst(t) ==
    /\ pc[t] = "waiting"
    /\ IF time_since_last < DELAY_BETWEEN_REQUESTS
       THEN /\ pc' = [pc EXCEPT ![t] = "sleeping"]
            /\ sleep_left' = [sleep_left EXCEPT ![t] = DELAY_BETWEEN_REQUESTS - time_since_last]
            /\ UNCHANGED <<sem_value, time_since_last, grants>>
       ELSE /\ ~SemaphoreLocked
            /\ sem_value' = sem_value - 1
            /\ pc' = [pc EXCEPT ![t] = "request"]
            /\ time_since_last' = 0
            /\ grants' = grants + 1
            /\ UNCHANGED sleep_left
    /\ UNCHANGED <<department_ids, limit, max_concurrent, response, listed,
                   object_ids, dept_pc, objects_data, main_pc, all_objects, completion_order, detail_order, downstream>>

\* (a fetcher that issues its request without acquire())
SkipAcquire(t) ==
    /\ pc[t] = "waiting"
    /\ pc' = [pc EXCEPT ![t] = "request"]
    /\ UNCHANGED <<department_ids, limit, max_concurrent, sem_value, time_since_last,
                   sleep_left, response, listed, object_ids, dept_pc, objects_data,
                   main_pc, all_objects, grants, completion_order, detail_order, downstream>>

\* acquire(), from the semaphore being taken to the next suspension point:
\* either the sleep for the rest of the delay, or the return (the grant).
Acquire(t) ==
    /\ pc[t] = "waiting"
    /\ ~SemaphoreLocked
    /\ sem_value' = sem_value - 1
    /\ IF time_since_last < DELAY_BETWEEN_REQUESTS
       THEN /\ pc' = [pc EXCEPT ![t] = "sleeping"]
            /\ sleep_left' = [sleep_left EXCEPT ![t] = DELAY_BETWEEN_REQUESTS - time_since_last]
            /\ UNCHANGED <<time_since_last, grants>>
       ELSE /\ pc' = [pc EXCEPT ![t] = "request"]
            /\ time_since_last' = 0
            /\ grants' = grants + 1
            /\ UNCHANGED sleep_left
    /\ UNCHANGED <<department_ids, limit, max_concurrent, response, listed,
                   object_ids, dept_pc, objects_data, main_pc, all_objects, completion_order, detail_order, downstream>>

\* acquire() after its sleep: last_request_time = loop.time(), then return.
WakeUp(t) ==
    /\ pc[t] = "sleeping"
    /\ sleep_left[t] = 0
    /\ pc' = [pc EXCEPT ![t] = "request"]
    /\ time_since_last' = 0
    /\ grants' = grants + 1
    /\ UNCHANGED <<department_ids, limit, max_concurrent, sem_value, sleep_left, response,
                   listed, object_ids, dept_pc, objects_data, main_pc, all_objects, completion_order, detail_order, downstream>>

\* (a release that frees two slots)
ReleaseTwice(v) == v + 2

\* (a release that frees nothing)
ReleaseNothing(v) == v

\* release(): semaphore.release() frees one slot
Release(v) == v + 1

\* The loop clock advances by one tick.
Tick ==
    /\ \E t \in Tasks : pc[t] \in {"waiting", "sleeping", "request"}
    /\ time_since_last' = Min(time_since_last + 1, DELAY_BETWEEN_REQUESTS)
    /\ sleep_left' = [t \in Tasks |-> Max(sleep_left[t] - 1, 0)]
    /\ UNCHANGED <<department_ids, limit, max_concurrent, sem_value, pc, response,
                   listed, object_ids, dept_pc, objects_data, main_pc, all_objects,
                   grants, completion_order, detail_order, downstream>>

\* ----------------------------------------------------------------- fetchers
\* The listing request of department d resolves with r: get_object_ids
\* releases and returns, and fetch_department_objects runs on to its gather.
ListingResponse(d, r) ==
    LET t == ListingTask(d)
        got == get_object_ids(r)
        kept == PySlice(got.ids, limit)
    IN  /\ pc[t] = "request"
        /\ sem_value' = Release(sem_value)
        /\ response' = [response EXCEPT ![t] = Answer(r)]
        /\ listed' = [listed EXCEPT ![d] = PyLen(got)]
        /\ IF got.kind = "dict"
           THEN \* a dict cannot be sliced: TypeError leaves fetch_department_objects
                /\ dept_pc' = [dept_pc EXCEPT ![d] = "raised"]
                /\ pc' = [pc EXCEPT ![t] = "done"]
                /\ UNCHANGED <<object_ids, completion_order>>
           ELSE /\ object_ids' = [object_ids EXCEPT ![d] = kept]
                /\ pc' = [u \in Tasks |->
                            IF u = t THEN "done"
                            ELSE IF u[1] = d /\ u[2] <= Len(kept) THEN "waiting"
                            ELSE pc[u]]
                   \* gather() of no task is already done: the function returns []
                /\ dept_pc' = [dept_pc EXCEPT ![d] = IF kept = <<>> THEN "returned" ELSE "gather"]
                /\ completion_order' = IF kept = <<>> THEN Append(completion_order, d)
                                       ELSE completion_order
        /\ UNCHANGED <<department_ids, limit, max_concurrent, time_since_last,
                       sleep_left, objects_data, main_pc, all_objects, grants, detail_order, downstream>>

\* (a fetcher that goes back to acquire() when its request failed)
DetailResponseRetry(d, i, r) ==
    LET t == DetailTask(d, i)
    IN  /\ i >= 1
        /\ pc[t] = "request"
        /\ sem_value' = Release(sem_value)
        /\ response' = [response EXCEPT ![t] = r]
        /\ detail_order' = [detail_order EXCEPT ![d] = Append(@, i)]
        /\ pc' = [pc EXCEPT ![t] = IF r.fault \/ r.status # 200 THEN "waiting" ELSE "done"]
        /\ UNCHANGED <<department_ids, limit, max_concurrent, time_since_last,
                       sleep_left, listed, object_ids, dept_pc, objects_data, main_pc,
                       all_objects, grants, completion_order, downstream>>

\* The detail request of the i-th retained id of department d resolves with r.
DetailResponse(d, i, r) ==
    LET t == DetailTask(d, i)
    IN  /\ i >= 1
        /\ pc[t] = "request"
        /\ sem_value' = Release(sem_value)
        /\ response' = [response EXCEPT ![t] = r]
        /\ detail_order' = [detail_order EXCEPT ![d] = Append(@, i)]
        /\ pc' = [pc EXCEPT ![t] = "done"]
        /\ UNCHANGED <<department_ids, limit, max_concurrent, time_since_last,
                       sleep_left, listed, object_ids, dept_pc, objects_data, main_pc,
                       all_objects, grants, completion_order, downstream>>

\* results of the detail fetches of department d, in the order of object_ids
DetailResults(d) ==
    [i \in 1..Len(object_ids[d]) |-> get_object_details(response[DetailTask(d, i)])]

\* (a department that builds its list as soon as one detail fetch is done)
DepartmentCollectEarly(d) ==
    LET out == CollectObjects(object_ids[d], DetailResults(d))
    IN  /\ dept_pc[d] = "gather"
        /\ \E i \in 1..Len(object_ids[d]) : pc[DetailTask(d, i)] = "done"
        /\ IF out.raised
           THEN /\ dept_pc' = [dept_pc EXCEPT ![d] = "raised"]
                /\ UNCHANGED <<objects_data, completion_order>>
           ELSE /\ dept_pc' = [dept_pc EXCEPT ![d] = "returned"]
                /\ objects_data' = [objects_data EXCEPT ![d] = out.data]
                /\ completion_order' = Append(completion_order, d)
        /\ UNCHANGED <<department_ids, limit, max_concurrent, sem_value,
                       time_since_last, sleep_left, pc, response, listed, object_ids,
                       main_pc, all_objects, grants, detail_order, downstream>>

\* (a department that takes the results of its detail fetches as they completed)
DepartmentCollectAsCompleted(d) ==
    LET order == detail_order[d]
        ids == [k \in 1..Len(order) |-> object_ids[d][order[k]]]
        results == [k \in 1..Len(order) |-> DetailResults(d)[order[k]]]
        out == CollectObjects(ids, results)
    IN  /\ dept_pc[d] = "gather"
        /\ \A i \in 1..Len(object_ids[d]) : pc[DetailTask(d, i)] = "done"
        /\ IF out.raised
           THEN /\ dept_pc' = [dept_pc EXCEPT ![d] = "raised"]
                /\ UNCHANGED <<objects_data, completion_order>>
           ELSE /\ dept_pc' = [dept_pc EXCEPT ![d] = "returned"]
                /\ objects_data' = [objects_data EXCEPT ![d] = out.data]
                /\ completion_order' = Append(completion_order, d)
        /\ UNCHANGED <<department_ids, limit, max_concurrent, sem_value,
                       time_since_last, sleep_left, pc, response, listed, object_ids,
                       main_pc, all_objects, grants, detail_order, downstream>>

\* gather() of the detail fetches is done: fetch_department_objects builds
\* objects_data and returns it (or raises).
DepartmentCollect(d) ==
    LET out == CollectObjects(object_ids[d], DetailResults(d))
    IN  /\ dept_pc[d] = "gather"
        /\ \A i \in 1..Len(object_ids[d]) : pc[DetailTask(d, i)] = "done"
        /\ IF out.raised
           THEN /\ dept_pc' = [dept_pc EXCEPT ![d] = "raised"]
                /\ UNCHANGED <<objects_data, completion_order>>
           ELSE /\ dept_pc' = [dept_pc EXCEPT ![d] = "returned"]
                /\ objects_data' = [objects_data EXCEPT ![d] = out.data]
                /\ completion_order' = Append(completion_order, d)
        /\ UNCHANGED <<department_ids, limit, max_concurrent, sem_value,
                       time_since_last, sleep_left, pc, response, listed, object_ids,
                       main_pc, all_objects, grants, detail_order, downstream>>

\* ------------------------------------------------------ fetch_all_departments
\* gather() of the departments is done without an exception.
AllReturn ==
    /\ main_pc = "gather"
    /\ \A d \in Departments : dept_pc[d] = "returned"
    /\ all_objects' = ExtendAll(objects_data, Len(department_ids))
    /\ main_pc' = "returned"
    /\ UNCHANGED <<department_ids, limit, max_concurrent, sem_value, time_since_last,
                   sleep_left, pc, response, listed, object_ids, dept_pc, objects_data,
                   grants, completion_order, detail_order, downstream>>

\* gather() hands the first exception of a department to fetch_all_departments,
\* which has no handler; the other departments are left running.
AllRaise ==
    /\ main_pc = "gather"
    /\ \E d \in Departments : dept_pc[d] = "raised"
    /\ main_pc' = "raised"
    /\ UNCHANGED <<department_ids, limit, max_concurrent, sem_value, time_since_last,
                   sleep_left, pc, response, listed, object_ids, dept_pc, objects_data,
                   all_objects, grants, completion_order, detail_order, downstream>>

\* asyncio.run() cancels what is still pending once fetch_all_departments has
\* raised. CancelledError is no Exception: a task waiting for the semaphore
\* holds nothing, a task in its request releases in the finally block, and a
\* task in the sleep of acquire() is outside the try and keeps its slot.
Pending(t) == pc[t] \in {"waiting", "sleeping", "request"}
CancelPending ==
    /\ main_pc = "raised"
    /\ main_pc' = "closed"
    /\ pc' = [t \in Tasks |-> IF Pending(t) THEN "cancelled" ELSE pc[t]]
    /\ sem_value' = sem_value + Cardinality({t \in Tasks : pc[t] = "request"})
    /\ sleep_left' = [t \in Tasks |-> 0]
    /\ dept_pc' = [d \in Departments |->
                     IF dept_pc[d] \in {"listing", "gather"} THEN "cancelled" ELSE dept_pc[d]]
    /\ UNCHANGED <<department_ids, limit, max_concurrent, time_since_last, response,
                   listed, object_ids, objects_data, all_objects, grants, completion_order, detail_order, downstream>>

Next ==
    \/ \E t \in Tasks : Acquire(t)
    \/ \E t \in Tasks : WakeUp(t)
    \/ Tick
    \/ \E d \in Departments, r \in ListingResponses : ListingResponse(d, r)
    \/ \E d \in Departments, i \in 1..MaxLimit, r \in DetailResponses : DetailResponse(d, i, r)
    \/ \E d \in Departments : DepartmentCollect(d)
    \/ AllReturn
    \/ AllRaise
    \/ CancelPending

Spec == Init /\ [][Next]_vars

\* The event loop runs every coroutine that can run, its clock advances, and
\* every request sent to the remote is answered.
Fairness ==
    /\ WF_vars(Tick)
    /\ \A t \in Tasks : WF_vars(Acquire(t)) /\ WF_vars(WakeUp(t))
    /\ \A d \in 1..MaxDepartments :
          /\ WF_vars(d \in Departments /\ \E r \in ListingResponses : ListingResponse(d, r))
          /\ WF_vars(d \in Departments /\ \E i \in 1..MaxLimit, r \in DetailResponses :
                                              DetailResponse(d, i, r))
          /\ WF_vars(d \in Departments /\ DepartmentCollect(d))
    /\ WF_vars(AllReturn)
    /\ WF_vars(AllRaise)
    /\ WF_vars(CancelPending)

LiveSpec == Spec /\ Fairness

\* ------------------------------------------------- the RateLimiter on its own
\* Five coroutines call acquire() on a fresh RateLimiter(2, 0.3) at the same
\* moment and call release() right after their grant: no time passes between
\* a grant and its release. The callers are named by five of the task slots.
GateCallers == {<<1, 0>>, <<1, 1>>, <<1, 2>>, <<2, 0>>, <<2, 1>>}

GateInit ==
    /\ department_ids = ScriptDepartments
    /\ limit = 0
    /\ max_concurrent = 2
    /\ sem_value = max_concurrent
    /\ time_since_last = DELAY_BETWEEN_REQUESTS
    /\ sleep_left = [t \in Tasks |-> 0]
    /\ pc = [t \in Tasks |-> IF t \in GateCallers THEN "waiting" ELSE "none"]
    /\ response = [t \in Tasks |-> NoResponse]
    /\ listed = [d \in Departments |-> 0]
    /\ object_ids = [d \in Departments |-> <<>>]
    /\ dept_pc = [d \in Departments |-> "listing"]
    /\ objects_data = [d \in Departments |-> <<>>]
    /\ main_pc = "gather"
    /\ all_objects = <<>>
    /\ grants = 0
    /\ completion_order = <<>>
    /\ detail_order = [d \in Departments |-> <<>>]
    /\ DownstreamIdle

\* the caller's release(), right after its grant
GateRelease(t) ==
    /\ pc[t] = "request"
    /\ pc' = [pc EXCEPT ![t] = "done"]
    /\ sem_value' = Release(sem_value)
    /\ UNCHANGED <<department_ids, limit, max_concurrent, time_since_last, sleep_left,
                   response, listed, object_ids, dept_pc, objects_data, main_pc,
                   all_objects, grants, completion_order, detail_order, downstream>>

\* The clock advances only when no caller can run: none is between its grant
\* and its release, none is waiting for a semaphore that has a free slot, and
\* none has slept out its sleep.
GateTick ==
    /\ \A t \in Tasks : pc[t] # "request"
    /\ \A t \in Tasks : pc[t] = "waiting" => SemaphoreLocked
    /\ \A t \in Tasks : pc[t] = "sleeping" => sleep_left[t] > 0
    /\ Tick

GateNext ==
    \/ \E t \in Tasks : Acquire(t)
    \/ \E t \in Tasks : WakeUp(t)
    \/ \E t \in Tasks : GateRelease(t)
    \/ GateTick

GateSpec == GateInit /\ [][GateNext]_vars

\* ------------------------------------------------- clean_and_validate_data
\* The fetch is over when the script cleans its DataFrame; the cleaning reads
\* none of the fetch's variables.
FetchOver ==
    /\ department_ids = <<>>
    /\ limit = 0
    /\ max_concurrent = 1
    /\ sem_value = 1
    /\ time_since_last = DELAY_BETWEEN_REQUESTS
    /\ sleep_left = [t \in Tasks |-> 0]
    /\ pc = [t \in Tasks |-> "none"]
    /\ response = [t \in Tasks |-> NoResponse]
    /\ listed = <<>>
    /\ object_ids = <<>>
    /\ dept_pc = <<>>
    /\ objects_data = <<>>
    /\ main_pc = "returned"
    /\ all_objects = <<>>
    /\ grants = 0
    /\ completion_order = <<>>
    /\ detail_order = <<>>

upstream == <<department_ids, limit, max_concurrent, sem_value, time_since_last, sleep_left,
              pc, response, listed, object_ids, dept_pc, objects_data, main_pc,
              all_objects, grants, completion_order, detail_order>>

\* The met_object_id values a row can hold, by their Python spelling: the
\* integers 1 and 2, the strings '' and 'nan', and None.
IdSpellings == {"1", "2", "", "nan", "None"}

\* A DataFrame of n rows: row k carries the index label it was built with
\* (its position in the input) and its met_object_id.
DataFrames ==
    UNION {{[k \in 1..n |-> [index |-> k, met_object_id |-> ids[k]]] :
                ids \in [1..n -> IdSpellings]} : n \in 0..MaxRows}

RECURSIVE RowsAt(_, _, _)
\* df[mask]: the rows at the positions of P, in their order
RowsAt(rows, P, k) ==
    IF k > Len(rows) THEN <<>>
    ELSE (IF k \in P THEN <<rows[k]>> ELSE <<>>) \o RowsAt(rows, P, k + 1)

\* df.duplicated(subset=['met_object_id'], keep=False): every row whose id
\* another row has too
duplicated(rows) ==
    {k \in 1..Len(rows) :
        \E j \in 1..Len(rows) : j # k /\ rows[j].met_object_id = rows[k].met_object_id}

\* (drop_duplicates with keep='last')
drop_duplicates_keep_last(rows) ==
    RowsAt(rows, {k \in 1..Len(rows) :
                    \A j \in (k + 1)..Len(rows) :
                        rows[j].met_object_id # rows[k].met_object_id}, 1)

\* df.drop_duplicates(subset=['met_object_id'], keep='first')
drop_duplicates(rows) ==
    RowsAt(rows, {k \in 1..Len(rows) :
                    \A j \in 1..(k - 1) :
                        rows[j].met_object_id # rows[k].met_object_id}, 1)

\* df.replace(old, None)
replace(rows, old) ==
    [k \in 1..Len(rows) |->
        IF rows[k].met_object_id = old
        THEN [rows[k] EXCEPT !.met_object_id = "None"]
        ELSE rows[k]]

\* df[df['met_object_id'].notna()]
notna(rows) == SelectSeq(rows, LAMBDA r : r.met_object_id # "None")

\* clean_and_validate_data(df), for a DataFrame that has the column
clean_and_validate_data(rows) ==
    LET deduplicated == IF duplicated(rows) # {} THEN drop_duplicates(rows) ELSE rows
        replaced == replace(replace(deduplicated, ""), "nan")
    IN  IF \E k \in 1..Len(replaced) : replaced[k].met_object_id = "None"
        THEN notna(replaced)
        ELSE replaced

CleanInit ==
    /\ FetchOver
    /\ raw_df \in DataFrames
    /\ df = <<>>
    /\ clean_pc = "called"
    /\ PersistenceIdle
    /\ QaIdle

\* The call df = clean_and_validate_data(df). A DataFrame built from no
\* record has no met_object_id column: df['met_object_id'] raises KeyError.
CleanAndValidate ==
    /\ clean_pc = "called"
    /\ IF raw_df = <<>>
       THEN /\ clean_pc' = "raised"
            /\ df' = df
       ELSE /\ clean_pc' = "returned"
            /\ df' = clean_and_validate_data(raw_df)
    /\ UNCHANGED <<upstream, qa, raw_df, persistence>>

CleanNext == CleanAndValidate

CleanSpec == CleanInit /\ [][CleanNext]_vars

\* ------------------------------------------------------- get_db_session
\* SessionLocal(): a session whose transaction has not begun
SessionLocal == [state |-> "open", active |-> TRUE, begun |-> FALSE, pending |-> {},
                 rollbacks |-> 0]

\* db.commit() has something to send once a statement has begun the
\* transaction, and is refused while the transaction is inactive
CommitCanRaise(s) == ~s.active \/ s.begun
CommitCanSucceed(s) == s.active

\* a statement of the session ran and changed rows
Flushed(s, changes) == [s EXCEPT !.begun = TRUE, !.pending = @ \cup changes]
\* a statement of the session ran and changed nothing
Queried(s) == [s EXCEPT !.begun = TRUE]
\* a flush or a commit raised: SQLAlchemy has rolled the transaction back and
\* refuses the session until rollback() is called
Deactivated(s) == [s EXCEPT !.active = FALSE, !.begun = FALSE, !.pending = {}]
\* db.commit() went through
commit(s) == [s EXCEPT !.begun = FALSE, !.pending = {}]
\* db.rollback()
rollback(s) == [s EXCEPT !.active = TRUE, !.begun = FALSE, !.pending = {},
                         !.rollbacks = @ + 1]
\* db.close()
close(s) == [s EXCEPT !.state = "closed", !.begun = FALSE, !.pending = {}]

\* db = SessionLocal(); yield db
Enter ==
    /\ with_pc = "enter"
    /\ session' = SessionLocal
    /\ with_pc' = "body"
    /\ UNCHANGED <<upstream, qa, cleaning, stored, committed, raising, body, body_pc, saving>>

\* the with-body has ended without an exception: db.commit()
ExitCommit ==
    /\ with_pc = "commit"
    /\ \/ /\ CommitCanSucceed(session)
          /\ committed' = committed \cup session.pending
          /\ session' = commit(session)
          /\ with_pc' = "finally"
          /\ UNCHANGED raising
       \/ /\ CommitCanRaise(session)
          /\ session' = Deactivated(session)
          /\ raising' = TRUE
          /\ with_pc' = "except"
          /\ UNCHANGED committed
    /\ UNCHANGED <<upstream, qa, cleaning, stored, body, body_pc, saving>>

\* (an except clause that commits what the transaction holds)
ExitRollbackCommits ==
    /\ with_pc = "except"
    /\ committed' = committed \cup session.pending
    /\ session' = commit(session)
    /\ with_pc' = "finally"
    /\ UNCHANGED <<upstream, qa, cleaning, stored, raising, body, body_pc, saving>>

\* except Exception: db.rollback(); raise
ExitRollback ==
    /\ with_pc = "except"
    /\ session' = rollback(session)
    /\ with_pc' = "finally"
    /\ UNCHANGED <<upstream, qa, cleaning, stored, committed, raising, body, body_pc, saving>>

\* finally: db.close(), and the generator returns or the exception goes on
ExitClose ==
    /\ with_pc = "finally"
    /\ session' = close(session)
    /\ with_pc' = IF raising THEN "raised" ELSE "returned"
    /\ UNCHANGED <<upstream, qa, cleaning, stored, committed, raising, body, body_pc, saving>>

\* The with-bodies of the repository query, change rows (add, flush, bulk
\* insert or update) and, in save_to_database only, end on db.commit().
BodyOps == {"change", "query"}
Bodies ==
    {b \o tail : b \in SeqsUpTo(BodyOps, MaxBodyOps), tail \in {<<>>, <<"commit">>}}

\* the change the k-th operation of the body makes
ChangeOf(k) == [op |-> "insert", index |-> k, met_object_id |-> k]

SessionInit ==
    /\ FetchOver
    /\ raw_df = <<>>
    /\ df = <<>>
    /\ clean_pc = "idle"
    /\ stored = {}
    /\ session = NoSession
    /\ committed = {}
    /\ with_pc = "enter"
    /\ raising = FALSE
    /\ body \in Bodies
    /\ body_pc = 1
    /\ save_pc = "idle"
    /\ new_records = <<>>
    /\ update_records = <<>>
    /\ stats = [inserted |-> 0, updated |-> 0, errors |-> 0, skipped |-> 0]
    /\ batch_i = 0
    /\ batch = <<>>
    /\ QaIdle

\* the next operation of the body runs, or raises
BodyStep ==
    /\ with_pc = "body"
    /\ save_pc = "idle"
    /\ body_pc <= Len(body)
    /\ \/ /\ body[body_pc] = "change"
          /\ \/ /\ session.active
                /\ session' = Flushed(session, {ChangeOf(body_pc)})
                /\ body_pc' = body_pc + 1
                /\ UNCHANGED <<raising, with_pc>>
             \/ /\ session' = Deactivated(session)
                /\ raising' = TRUE
                /\ with_pc' = "except"
                /\ UNCHANGED body_pc
          /\ UNCHANGED committed
       \/ /\ body[body_pc] = "query"
          /\ \/ /\ session.active
                /\ session' = Queried(session)
                /\ body_pc' = body_pc + 1
                /\ UNCHANGED <<raising, with_pc>>
             \/ /\ raising' = TRUE
                /\ with_pc' = "except"
                /\ UNCHANGED <<session, body_pc>>
          /\ UNCHANGED committed
       \/ /\ body[body_pc] = "commit"
          /\ \/ /\ CommitCanSucceed(session)
                /\ committed' = committed \cup session.pending
                /\ session' = commit(session)
                /\ body_pc' = body_pc + 1
                /\ UNCHANGED <<raising, with_pc>>
             \/ /\ CommitCanRaise(session)
                /\ session' = Deactivated(session)
                /\ raising' = TRUE
                /\ with_pc' = "except"
                /\ UNCHANGED <<committed, body_pc>>
    /\ UNCHANGED <<upstream, qa, cleaning, stored, body, saving>>

\* a statement of the body that is no database operation raises, before the
\* body's next operation
BodyRaise ==
    /\ with_pc = "body"
    /\ save_pc = "idle"
    /\ body_pc <= Len(body)
    /\ raising' = TRUE
    /\ with_pc' = "except"
    /\ UNCHANGED <<upstream, qa, cleaning, stored, session, committed, body, body_pc, saving>>

\* the body ends, by its last statement or by a return
BodyEnd ==
    /\ with_pc = "body"
    /\ save_pc = "idle"
    /\ body_pc > Len(body)
    /\ with_pc' = "commit"
    /\ UNCHANGED <<upstream, qa, cleaning, stored, session, committed, raising, body, body_pc,
                   saving>>

SessionNext ==
    \/ Enter
    \/ BodyStep
    \/ BodyRaise
    \/ BodyEnd
    \/ ExitCommit
    \/ ExitRollback
    \/ ExitClose

SessionSpec == SessionInit /\ [][SessionNext]_vars

\* ------------------------------------------------------ save_to_database
\* A row of the DataFrame: its index label, its met_object_id, and whether
\* prepare_artwork_data(row) returns (or raises, on a value it cannot convert).
SaveFrames ==
    UNION {{[k \in 1..n |-> [index |-> k, met_object_id |-> ids[k], prepares |-> ok[k]]] :
                ids \in [1..n -> ItemIds], ok \in [1..n -> BOOLEAN]} : n \in 0..MaxRows}

\* A DataFrame of two rows more than a batch holds, each with an id of its own.
BigFrame ==
    [k \in 1..(batch_size + 2) |-> [index |-> k, met_object_id |-> k, prepares |-> TRUE]]

SaveInit ==
    /\ FetchOver
    /\ raw_df = <<>>
    /\ clean_pc = "idle"
    /\ df \in SaveFrames \cup {BigFrame}
    /\ stored \in SUBSET ItemIds
    /\ session = NoSession
    /\ committed = {}
    /\ with_pc = "none"
    /\ raising = FALSE
    /\ body = <<>>
    /\ body_pc = 1
    /\ save_pc = "called"
    /\ new_records = <<>>
    /\ update_records = <<>>
    /\ stats = [inserted |-> 0, updated |-> 0, errors |-> 0, skipped |-> 0]
    /\ batch_i = 0
    /\ batch = <<>>
    /\ QaIdle

\* seq[i:j], 0 <= i <= j
PySliceRange(seq, i, j) == SubSeq(seq, i + 1, Min(j, Len(seq)))

\* the dictionary prepare_artwork_data returns, as far as the upsert reads it
prepare_artwork_data(row) == [index |-> row.index, met_object_id |-> row.met_object_id]

\* existing_ids: the ids of the DataFrame that the table holds
existing_ids == stored \cap {df[k].met_object_id : k \in 1..Len(df)}

\* (a membership test that finds nothing)
InExistingNever(met_object_id, existing) == FALSE

\* met_object_id in existing_ids
InExisting(met_object_id, existing) == met_object_id \in existing

\* the rows of the loop's two lists
PreparedRows(rows, existing, known) ==
    LET kept == SelectSeq(rows, LAMBDA r :
                    r.prepares /\ (InExisting(r.met_object_id, existing) <=> known))
    IN  [k \in 1..Len(kept) |-> prepare_artwork_data(kept[k])]

\* the step that follows the insert loop
AfterInserts(updates) == IF updates # <<>> THEN "lookup" ELSE "commit"

\* process_batch: the counter it adds len(batch) to
process_batch(st, stats_key, n, succeeded) ==
    IF succeeded
    THEN [st EXCEPT ![stats_key] = @ + n]
    ELSE [st EXCEPT !.errors = @ + n]

\* the rows a bulk operation writes
ChangesOfBatch(b, operation_type) ==
    {[op |-> operation_type, index |-> b[k].index, met_object_id |-> b[k].met_object_id] :
        k \in 1..Len(b)}

\* met_object_id is unique: a bulk insert is refused when two of its rows, or
\* one of them and a row stored or inserted before, have the same id
InsertAccepted(b, s) ==
    LET ids == {b[k].met_object_id : k \in 1..Len(b)}
        before == stored \cup {c.met_object_id : c \in {x \in s.pending : x.op = "insert"}}
    IN  Cardinality(ids) = Len(b) /\ ids \cap before = {}

\* an exception leaves the with-body
BodyRaises ==
    /\ raising' = TRUE
    /\ with_pc' = "except"
    /\ save_pc' = "exit"

\* stats = {...}; if len(df) == 0: return stats; with get_db_session() as db
SaveCall ==
    /\ save_pc = "called"
    /\ IF Len(df) = 0
       THEN /\ save_pc' = "returned"
            /\ UNCHANGED with_pc
       ELSE /\ save_pc' = "query"
            /\ with_pc' = "enter"
    /\ UNCHANGED <<upstream, qa, cleaning, stored, session, committed, raising, body, body_pc,
                   new_records, update_records, stats, batch_i, batch>>

\* Step 1: the query for the ids already stored
QueryExisting ==
    /\ save_pc = "query"
    /\ with_pc = "body"
    /\ \/ /\ session' = Queried(session)
          /\ save_pc' = "prepare"
          /\ UNCHANGED <<with_pc, raising>>
       \/ /\ BodyRaises
          /\ UNCHANGED session
    /\ UNCHANGED <<upstream, qa, cleaning, stored, committed, body, body_pc,
                   new_records, update_records, stats, batch_i, batch>>

\* Step 2: the loop over the rows
PrepareRows ==
    /\ save_pc = "prepare"
    /\ with_pc = "body"
    /\ new_records' = PreparedRows(df, existing_ids, FALSE)
    /\ update_records' = PreparedRows(df, existing_ids, TRUE)
    /\ stats' = [stats EXCEPT
                    !.errors = @ + Cardinality({k \in 1..Len(df) : ~df[k].prepares})]
    /\ save_pc' = IF new_records' # <<>> THEN "insert" ELSE AfterInserts(update_records')
    /\ batch_i' = 0
    /\ UNCHANGED <<upstream, qa, cleaning, stored, session, committed, with_pc, raising, body,
                   body_pc, batch>>

\* Step 3: one turn of the insert loop
InsertBatch ==
    /\ save_pc = "insert"
    /\ with_pc = "body"
    /\ batch' = PySliceRange(new_records, batch_i, batch_i + batch_size)
    /\ \/ /\ session.active
          /\ InsertAccepted(batch', session)
          /\ session' = Flushed(session, ChangesOfBatch(batch', "insert"))
          /\ stats' = process_batch(stats, "inserted", Len(batch'), TRUE)
       \/ /\ session' = Deactivated(session)
          /\ stats' = process_batch(stats, "inserted", Len(batch'), FALSE)
    /\ IF batch_i + batch_size < Len(new_records)
       THEN /\ batch_i' = batch_i + batch_size
            /\ UNCHANGED save_pc
       ELSE /\ batch_i' = 0
            /\ save_pc' = AfterInserts(update_records)
    /\ UNCHANGED <<upstream, qa, cleaning, stored, committed, with_pc, raising, body, body_pc,
                   new_records, update_records>>

\* Step 4: the query for the primary keys of the rows to update
LookupIds ==
    /\ save_pc = "lookup"
    /\ with_pc = "body"
    /\ \/ /\ session.active
          /\ session' = Queried(session)
          /\ save_pc' = "update"
          /\ UNCHANGED <<with_pc, raising>>
       \/ /\ BodyRaises
          /\ UNCHANGED session
    /\ UNCHANGED <<upstream, qa, cleaning, stored, committed, body, body_pc,
                   new_records, update_records, stats, batch_i, batch>>

\* Step 4: one turn of the update loop
UpdateBatch ==
    /\ save_pc = "update"
    /\ with_pc = "body"
    /\ batch' = PySliceRange(update_records, batch_i, batch_i + batch_size)
    /\ \/ /\ session.active
          /\ session' = Flushed(session, ChangesOfBatch(batch', "update"))
          /\ stats' = process_batch(stats, "updated", Len(batch'), TRUE)
       \/ /\ session' = Deactivated(session)
          /\ stats' = process_batch(stats, "updated", Len(batch'), FALSE)
    /\ IF batch_i + batch_size < Len(update_records)
       THEN /\ batch_i' = batch_i + batch_size
            /\ UNCHANGED save_pc
       ELSE /\ batch_i' = 0
            /\ save_pc' = "commit"
    /\ UNCHANGED <<upstream, qa, cleaning, stored, committed, with_pc, raising, body, body_pc,
                   new_records, update_records>>

\* Step 5: db.commit(), the last statement of the with-body
BodyCommit ==
    /\ save_pc = "commit"
    /\ with_pc = "body"
    /\ \/ /\ CommitCanSucceed(session)
          /\ committed' = committed \cup session.pending
          /\ session' = commit(session)
          /\ save_pc' = "exit"
          /\ with_pc' = "commit"
          /\ UNCHANGED raising
       \/ /\ CommitCanRaise(session)
          /\ session' = Deactivated(session)
          /\ BodyRaises
          /\ UNCHANGED committed
    /\ UNCHANGED <<upstream, qa, cleaning, stored, body, body_pc,
                   new_records, update_records, stats, batch_i, batch>>

\* the with statement is left normally: the summary, return stats
SaveReturn ==
    /\ save_pc = "exit"
    /\ with_pc = "returned"
    /\ save_pc' = "returned"
    /\ UNCHANGED <<upstream, qa, cleaning, stored, session, committed, with_pc, raising, body,
                   body_pc, new_records, update_records, stats, batch_i, batch>>

\* except Exception: stats['errors'] = len(df); return stats
SaveExcept ==
    /\ save_pc = "exit"
    /\ with_pc = "raised"
    /\ stats' = [stats EXCEPT !.errors = Len(df)]
    /\ raising' = FALSE
    /\ save_pc' = "returned"
    /\ UNCHANGED <<upstream, qa, cleaning, stored, session, committed, with_pc, body, body_pc,
                   new_records, update_records, batch_i, batch>>

SaveNext ==
    \/ SaveCall
    \/ Enter
    \/ QueryExisting
    \/ PrepareRows
    \/ InsertBatch
    \/ LookupIds
    \/ UpdateBatch
    \/ BodyCommit
    \/ ExitCommit
    \/ ExitRollback
    \/ ExitClose
    \/ SaveReturn
    \/ SaveExcept

SaveSpec == SaveInit /\ [][SaveNext]_vars

\* ------------------------------------------------- quality assurance agent
\* quality_assurance_agent.py: review_content obtains the review text of the
\* LLM and hands it to _parse_qa_response, which looks for words in it.  A
\* text is modelled by the set of the words occurring in it; the tests of the
\* code are substring tests, so a word answers for every word it contains.
MaxWords == 4

Words ==
    {"factual_accuracy", "museum_tone", "readability", "no_problematic_language",
     "qa_status", "true", "True", "accurate", "inaccurate", "appropriate",
     "inappropriate", "readable", "clear", "problematic", "no",
     "status", "Status", "passed", "PASSED", "failed", "Error"}

ReviewTexts == {t \in SUBSET Words : Cardinality(t) <= MaxWords}

\* str.lower() of one word
LowerWord(w) ==
    CASE w = "True"   -> "true"
      [] w = "Status" -> "status"
      [] w = "PASSED" -> "passed"
      [] w = "Error"  -> "error"
      [] OTHER        -> w

\* review_text.lower()
lower(text) == {LowerWord(w) : w \in text}

\* the words of Words that are substrings of w
SubstringsOf(w) ==
    {w} \cup
    CASE w = "inaccurate"              -> {"accurate"}
      [] w = "inappropriate"           -> {"appropriate"}
      [] w = "no_problematic_language" -> {"no", "problematic"}
      [] w = "qa_status"               -> {"status"}
      [] OTHER                         -> {}

\* `word in text` of Python, case-sensitive
In(word, text) == \E w \in text : word \in SubstringsOf(w)

factual_accuracy(review_lower) ==
    \/ In("factual_accuracy", review_lower) /\ In("true", review_lower)
    \/ In("accurate", review_lower) /\ ~In("inaccurate", review_lower)

museum_tone(review_lower) ==
    \/ In("museum_tone", review_lower) /\ In("true", review_lower)
    \/ In("appropriate", review_lower) /\ ~In("inappropriate", review_lower)

readability(review_lower) ==
    \/ In("readability", review_lower) /\ In("true", review_lower)
    \/ In("readable", review_lower) \/ In("clear", review_lower)

no_problematic_language(review_lower) ==
    \/ In("no_problematic_language", review_lower) /\ In("true", review_lower)
    \/ ~In("problematic", review_lower)
    \/ In("no", review_lower) /\ In("problematic", review_lower)

qa_status(review_lower) ==
    IF In("qa_status", review_lower) \/ In("status", review_lower)
    THEN IF In("passed", review_lower) THEN "passed"
         ELSE IF In("failed", review_lower) THEN "failed"
         ELSE "review"
    ELSE IF /\ factual_accuracy(review_lower)
            /\ museum_tone(review_lower)
            /\ readability(review_lower)
            /\ no_problematic_language(review_lower)
         THEN "passed"
         ELSE IF ~factual_accuracy(review_lower) \/ ~no_problematic_language(review_lower)
              THEN "failed"
              ELSE "review"

needs_human_review(review_lower) ==
    \/ qa_status(review_lower) = "review"
    \/ qa_status(review_lower) = "failed"
    \/ ~factual_accuracy(review_lower)
    \/ ~museum_tone(review_lower)
    \/ ~no_problematic_language(review_lower)

\* _parse_qa_response(review_text, generated_content, research_data); the two
\* ids it copies from generated_content are left out
parse_qa_response(text) ==
    LET review_lower == lower(text) IN
    [qa_status               |-> qa_status(review_lower),
     factual_accuracy        |-> factual_accuracy(review_lower),
     museum_tone             |-> museum_tone(review_lower),
     readability             |-> readability(review_lower),
     no_problematic_language |-> no_problematic_language(review_lower),
     notes                   |-> text,
     needs_human_review      |-> needs_human_review(review_lower)]

QaInit ==
    /\ FetchOver
    /\ raw_df = <<>>
    /\ df = <<>>
    /\ clean_pc = "idle"
    /\ PersistenceIdle
    /\ review_text \in ReviewTexts
    /\ qa_response = NoQAResponse
    /\ qa_pc = "reviewed"

\* review_content: the review text reports an error, None is returned
ReviewError ==
    /\ qa_pc = "reviewed"
    /\ In("Error", review_text)
    /\ qa_response' = NoQAResponse
    /\ qa_pc' = "returned"
    /\ UNCHANGED <<upstream, cleaning, persistence, review_text>>

\* review_content: the review text is parsed and the QAResponse returned
ReviewParsed ==
    /\ qa_pc = "reviewed"
    /\ ~In("Error", review_text)
    /\ qa_response' = parse_qa_response(review_text)
    /\ qa_pc' = "returned"
    /\ UNCHANGED <<upstream, cleaning, persistence, review_text>>

QaNext ==
    \/ ReviewError
    \/ ReviewParsed

QaSpec == QaInit /\ [][QaNext]_vars

\* ================================================================= claims
Holding(t) == pc[t] = "request"                  \* granted and not yet released
Sleeping(t) == pc[t] = "sleeping"                \* slot taken, in the sleep of acquire()
DetailTasksOf(d) == {DetailTask(d, i) : i \in 1..MaxLimit}
Launched(d) == {t \in DetailTasksOf(d) : pc[t] # "none"}
Finished(d) == dept_pc[d] \in {"returned", "raised"}
\* the remote answered with something other than a success status
Failed(r) == r.fault \/ r.status # 200
\* the remote answered 200 with a record
Succeeded(r) == ~r.fault /\ r.status = 200 /\ r.body = "record"
\* the retained ids of department d whose detail fetch succeeded, in listing order
RECURSIVE FoundFrom(_, _)
FoundFrom(d, i) ==
    IF i > Len(object_ids[d]) THEN <<>>
    ELSE (IF Succeeded(response[DetailTask(d, i)])
          THEN <<[met_object_id |-> object_ids[d][i]]>> ELSE <<>>)
         \o FoundFrom(d, i + 1)

\* C1: the number of permits granted and not yet released never exceeds the
\* maximum concurrency the gate was built with.
C1_ConcurrencyBound ==
    Cardinality({t \in Tasks : Holding(t)}) <= max_concurrent

\* C1 witness: every permit is out and another fetch is kept waiting.
C1_Witness ==
    /\ Cardinality({t \in Tasks : Holding(t)}) = max_concurrent
    /\ \E t \in Tasks : pc[t] = "waiting"
    /\ sem_value = 0

\* C2: any two consecutive returns of acquire() are at least the minimum
\* delay apart.
C2_SpacingBound ==
    [][(grants' = grants + 1 /\ grants >= 1)
         => time_since_last >= DELAY_BETWEEN_REQUESTS]_vars

\* C3: the check of the time since the last grant and the marking of the new
\* grant are one atomic step: while a caller is between its check and its
\* mark, no other caller checks or marks.
C3_AtomicCheckAndMark ==
    [][\A t \in Tasks :
         (Sleeping(t) /\ Sleeping(t)') =>
            /\ grants' = grants
            /\ \A u \in Tasks : Sleeping(u)' => Sleeping(u)]_vars

\* C4: every acquire() of a fetcher is matched by one release(): the slots
\* taken are those of the fetches inside acquire() or their request, and none
\* is outstanding once fetch_all_departments has returned.
C4_PermitBalance ==
    /\ main_pc \in {"gather", "returned"} =>
          sem_value + Cardinality({t \in Tasks : Holding(t) \/ Sleeping(t)}) = max_concurrent
    /\ main_pc = "returned" =>
          /\ sem_value = max_concurrent
          /\ \A t \in Tasks : ~Holding(t) /\ ~Sleeping(t)

\* C4 witness: a run has returned whose requests left by every exit path: a
\* success, a non-200 status and an exception.
C4_Witness ==
    /\ main_pc = "returned"
    /\ \E t \in Tasks : pc[t] = "done" /\ response[t].fault
    /\ \E t \in Tasks : pc[t] = "done" /\ ~response[t].fault /\ response[t].status = 404
    /\ \E t \in Tasks : pc[t] = "done" /\ ~response[t].fault /\ response[t].status = 200

\* exactly one detail fetch of department d failed and all the others succeeded
OneFailedRestSucceeded(d) ==
    /\ \E i \in 1..Len(object_ids[d]) :
          /\ Failed(response[DetailTask(d, i)])
          /\ \A j \in 1..Len(object_ids[d]) :
                j # i => Succeeded(response[DetailTask(d, j)])

\* C5: when exactly one of the K detail fetches of a department fails and the
\* other K-1 succeed, fetch_department_objects returns exactly the K-1 records
\* of the successful fetches and raises nothing.
C5_Isolation ==
    \A d \in Departments :
        (Finished(d) /\ OneFailedRestSucceeded(d)) =>
            /\ dept_pc[d] = "returned"
            /\ Len(objects_data[d]) = Len(object_ids[d]) - 1
            /\ objects_data[d] = FoundFrom(d, 1)

\* C5 witness: a department returned one record of two fetches, the first of
\* which failed.
C5_Witness ==
    \E d \in Departments :
        /\ dept_pc[d] = "returned"
        /\ Len(object_ids[d]) >= 2
        /\ OneFailedRestSucceeded(d)
        /\ Failed(response[DetailTask(d, 1)])
        /\ Len(objects_data[d]) = 1

\* C6: for every answer other than a success status (another status, or a
\* transport error) get_object_details returns None, which is what
\* fetch_department_objects finds in its results.
C6_DetailAbsentOnFailure ==
    \A d \in Departments : \A i \in 1..Len(object_ids[d]) :
        (pc[DetailTask(d, i)] = "done" /\ Failed(response[DetailTask(d, i)])) =>
            DetailResults(d)[i] = "None"

\* C6 witness: one detail fetch ended in a transport error and another in a
\* non-200 status.
C6_Witness ==
    \E d \in Departments : \E i, j \in 1..Len(object_ids[d]) :
        /\ pc[DetailTask(d, i)] = "done" /\ response[DetailTask(d, i)].fault
        /\ pc[DetailTask(d, j)] = "done" /\ ~response[DetailTask(d, j)].fault
        /\ response[DetailTask(d, j)].status = 404

\* C7: a listing request that ends in a transport error, a non-success status
\* or a malformed payload makes get_object_ids return the empty list, so the
\* department retains no id and raises nothing.
C7_ListingErrorPolicy ==
    \A d \in Departments :
        (pc[ListingTask(d)] = "done"
           /\ (Failed(response[ListingTask(d)]) \/ response[ListingTask(d)].body # "id_list")) =>
            /\ listed[d] = 0
            /\ object_ids[d] = <<>>
            /\ dept_pc[d] # "raised"

\* C8: in a run over two departments, when the listing of one is empty (the
\* remote's list, or a failure), the output holds exactly the records of the
\* other: one record for each of its retained ids that was fetched.
C8_PartitionIndependence ==
    (main_pc = "returned" /\ Len(department_ids) = 2) =>
        \A a, b \in Departments :
            (a # b /\ listed[a] = 0) =>
                all_objects = FoundFrom(b, 1)

\* C8 witness: the listing of the first department failed and the output
\* holds a record of the second.
C8_Witness ==
    /\ main_pc = "returned"
    /\ Len(department_ids) = 2
    /\ response[ListingTask(1)].fault
    /\ all_objects # <<>>
    /\ all_objects = FoundFrom(2, 1)

\* C9: whatever the remote answers, fetch_all_departments never raises.
C9_NoFatalErrorPath ==
    main_pc \notin {"raised", "closed"}

\* the first 20 of a listing of 25 ids
Listing25 == [i \in 1..25 |-> i]

\* C10: a department launches at most min(limit, number of listed ids) detail
\* fetches; 25 listed ids under a limit of 20 give 20.
C10_CapEnforcement ==
    /\ \A d \in Departments :
          Cardinality(Launched(d)) <= Min(limit, listed[d])
    /\ Len(PySlice(Listing25, 20)) = 20

\* C10 witness: the remote listed more ids than the limit, and the department
\* launched as many fetches as the limit allows.
C10_Witness ==
    \E d \in Departments :
        /\ limit >= 1
        /\ listed[d] > limit
        /\ Cardinality(Launched(d)) = limit

\* the records of the first n departments, department after department
RECURSIVE InInputOrder(_)
InInputOrder(n) ==
    IF n = 0 THEN <<>> ELSE InInputOrder(n - 1) \o objects_data[n]

\* C11: the list fetch_all_departments returns is the departments' record
\* lists joined in the order of department_ids, whatever the order in which
\* the departments completed.
C11_PartitionOrderGrouping ==
    main_pc = "returned" =>
        /\ all_objects = InInputOrder(Len(department_ids))
        /\ \A d \in Departments :
              SubSeq(all_objects, Len(InInputOrder(d - 1)) + 1, Len(InInputOrder(d)))
                = objects_data[d]

\* C11 witness: the second department completed before the first, each gave
\* a record, and the record of the first still comes first.
C11_Witness ==
    /\ main_pc = "returned"
    /\ completion_order = <<2, 1>>
    /\ object_ids[1] = <<2>> /\ object_ids[2] = <<1>>
    /\ all_objects = <<[met_object_id |-> 2], [met_object_id |-> 1]>>

\* get_object_details returned a payload (anything but None) for the i-th
\* retained id of department d
Found(d, i) == DetailResults(d)[i] # "None"
\* how many records of id x the department returned, and for how many of its
\* retained occurrences of x a payload was found
Occurrences(d, x) ==
    Cardinality({k \in 1..Len(objects_data[d]) : objects_data[d][k].met_object_id = x})
FoundOccurrences(d, x) ==
    Cardinality({i \in 1..Len(object_ids[d]) : object_ids[d][i] = x /\ Found(d, i)})

\* C12: the list fetch_department_objects returns holds exactly one record
\* for each retained id whose fetch returned a payload, none for an id whose
\* fetch returned None, and only records of the department's own retained ids.
C12_CollectFoundDropAbsent ==
    \A d \in Departments :
        dept_pc[d] = "returned" =>
            /\ \A x \in ItemIds : Occurrences(d, x) = FoundOccurrences(d, x)
            /\ \A k \in 1..Len(objects_data[d]) :
                  \E i \in 1..Len(object_ids[d]) :
                      objects_data[d][k].met_object_id = object_ids[d][i]

\* the remote answered with a success status and a payload that parses
ParsedSuccess(r) == ~r.fault /\ r.status = 200 /\ r.body \in {"record", "empty", "array"}

\* C13: a detail request answered with a success status and a parseable
\* payload makes get_object_details return that payload, and the list the
\* department returns holds a record for that id.
C13_SuccessYieldsFound ==
    \A d \in Departments : \A i \in 1..Len(object_ids[d]) :
        (pc[DetailTask(d, i)] = "done" /\ ParsedSuccess(response[DetailTask(d, i)])) =>
            /\ DetailResults(d)[i] = response[DetailTask(d, i)].body
            /\ Finished(d) =>
                  /\ dept_pc[d] = "returned"
                  /\ Occurrences(d, object_ids[d][i]) >= 1

\* the fetches, of whatever department, that hold a slot of the gate
InGate == {t \in Tasks : Holding(t) \/ Sleeping(t)}

\* C14: one RateLimiter serves the whole run: the listing and detail fetches
\* of all departments together never hold more slots than the one gate has,
\* and while the run is gathering the free slots of that gate are exactly
\* those no fetch of any department holds.
C14_SingleSharedGate ==
    /\ Cardinality(InGate) <= max_concurrent
    /\ \A t, u \in InGate : t[1] # u[1] => max_concurrent >= 2
    /\ main_pc = "gather" => sem_value = max_concurrent - Cardinality(InGate)

\* C14 witness: a fetch of one department holds the last slot and a fetch of
\* the other department is kept waiting for it.
C14_Witness ==
    \E t, u \in Tasks :
        /\ t[1] # u[1]
        /\ Holding(t)
        /\ pc[u] = "waiting"
        /\ sem_value = 0

\* the requests sent to the remote and not yet answered
RequestsInFlight == {t \in Tasks : pc[t] = "request" /\ response[t] = NoResponse}
\* the slots of the semaphore that are taken
SlotsTaken == max_concurrent - sem_value

\* C15: every request, listing or detail, is in flight only under a slot of
\* the gate: the requests in flight never outnumber the slots taken, and a
\* fetch that has not yet been granted has sent nothing and received nothing.
C15_SingleFunnel ==
    /\ Cardinality(RequestsInFlight) <= SlotsTaken
    /\ \A t \in Tasks :
          pc[t] \in {"none", "waiting", "sleeping"} =>
              /\ t \notin RequestsInFlight
              /\ response[t] = NoResponse

\* C15 witness: the listing request of one department and a detail request
\* of the other are in flight together, on the two slots of the gate.
C15_Witness ==
    \E d, e \in Departments : \E i \in 1..MaxLimit :
        /\ d # e
        /\ ListingTask(d) \in RequestsInFlight
        /\ DetailTask(e, i) \in RequestsInFlight
        /\ SlotsTaken = 2

\* acquire() has returned for fetch t
Granted(t) == pc[t] \in {"request", "done"}

\* C16: every call of acquire() is eventually granted, and
\* fetch_all_departments eventually returns.
C16_GateOnlyDelays ==
    /\ \A t \in Tasks : (pc[t] = "waiting") ~> Granted(t)
    /\ <>(main_pc = "returned")

\* C17: of five acquire() calls made together on a gate of two slots, the
\* third, fourth and fifth grant each come only after a slot was released
\* and at least the delay after the grant before.
C17_GateScenario ==
    [][(grants' = grants + 1 /\ grants >= 2) =>
          /\ time_since_last >= DELAY_BETWEEN_REQUESTS
          /\ \E t \in GateCallers : pc[t] = "done"]_vars

\* The script's run computed from end to end: the listing of department 1
\* answers 200 with the ids 1..20 and every detail request 200 with a record,
\* the listing of department 11 answers 200 with an empty list.
Listing20 == [i \in 1..ScriptLimit |-> i]
ScriptRunOutput ==
    LET answer(l) == [fault |-> FALSE, status |-> 200, body |-> "id_list", ids |-> l]
        record == [fault |-> FALSE, status |-> 200, body |-> "record"]
        ids1 == PySlice(get_object_ids(answer(Listing20)).ids, ScriptLimit)
        ids11 == PySlice(get_object_ids(answer(<<>>)).ids, ScriptLimit)
        out1 == CollectObjects(ids1, [i \in 1..Len(ids1) |-> get_object_details(record)])
        out11 == CollectObjects(ids11, <<>>)
    IN  ExtendAll(<<out1.data, out11.data>>, Len(ScriptDepartments))

\* the listing of department d answered 200 with as many ids as the limit
\* and every detail request of d answered 200 with a record
ListedToTheLimitAllFound(d) ==
    /\ ~response[ListingTask(d)].fault /\ response[ListingTask(d)].status = 200
    /\ response[ListingTask(d)].body = "id_list"
    /\ listed[d] = limit
    /\ \A i \in 1..limit : Succeeded(response[DetailTask(d, i)])
\* the listing of department d answered 200 with an empty list
ListedNothing(d) ==
    /\ ~response[ListingTask(d)].fault /\ response[ListingTask(d)].status = 200
    /\ response[ListingTask(d)].body = "id_list"
    /\ listed[d] = 0

\* C18: for the departments [1, 11], when the listing of department 1 gives
\* as many ids as the limit and all their fetches succeed, and the listing of
\* department 11 gives none, fetch_all_departments returns exactly one record
\* per id of department 1: 20 records for 20 ids under the limit 20.
C18_OrchestratorScenario ==
    /\ (main_pc = "returned" /\ department_ids = ScriptDepartments
          /\ ListedToTheLimitAllFound(1) /\ ListedNothing(2)) =>
            /\ Len(all_objects) = limit
            /\ \A i \in 1..limit : all_objects[i].met_object_id = object_ids[1][i]
    /\ Len(ScriptRunOutput) = ScriptLimit
    /\ \A i \in 1..ScriptLimit : ScriptRunOutput[i].met_object_id = Listing20[i]

\* C18 witness: such a run over [1, 11] has returned the record of department 1.
C18_Witness ==
    /\ main_pc = "returned" /\ department_ids = ScriptDepartments
    /\ limit >= 1
    /\ ListedToTheLimitAllFound(1) /\ ListedNothing(2)
    /\ Len(all_objects) = limit

\* the fetches the run has to make: one listing for each entry of
\* department_ids and one detail fetch for each retained entry of a listing
Occurrence(t) == t[1] \in Departments /\ t[2] <= Len(object_ids[t[1]])
\* the fetches whose request has been sent
Requested(t) == pc[t] \in {"request", "done"}

\* C19: no request is sent twice: the requests sent so far (one for each
\* return of acquire()) are as many as the fetches that have sent theirs, a
\* fetch that has its answer, failed or not, sends nothing more, and a run
\* that has returned has sent exactly one request for each listing and for
\* each retained id.
C19_NoRetry ==
    /\ grants <= Cardinality({t \in Tasks : Occurrence(t)})
    /\ main_pc \in {"gather", "returned", "raised"} =>
          grants = Cardinality({t \in Tasks : Requested(t)})
    /\ \A t \in Tasks : response[t] # NoResponse => pc[t] = "done"
    /\ main_pc = "returned" =>
          grants = Cardinality({t \in Tasks : Occurrence(t)})

\* C19 witness: a run has returned in which a listing request and a detail
\* request failed, and each was sent once.
C19_Witness ==
    /\ main_pc = "returned"
    /\ \E d \in Departments : Failed(response[ListingTask(d)])
    /\ \E d \in Departments : \E i \in 1..Len(object_ids[d]) :
          Failed(response[DetailTask(d, i)])
    /\ grants = Cardinality({t \in Tasks : Occurrence(t)})

\* how often a record of id x is in the output, and how many retained
\* occurrences of x, over all departments, were answered with a record
OutputOccurrences(x) ==
    Cardinality({k \in 1..Len(all_objects) : all_objects[k].met_object_id = x})
RecordOccurrences(x) ==
    Cardinality({t \in Tasks : /\ Occurrence(t) /\ t[2] >= 1
                               /\ object_ids[t[1]][t[2]] = x
                               /\ Succeeded(response[t])})

FirstEntries(l, n) == [i \in 1..Min(n, Len(l)) |-> l[i]]

\* the slice of every listing, under every limit, is its first entries
SliceIsPrefix ==
    \A l \in SeqsUpTo(ItemIds, MaxListing) : \A n \in 0..MaxLimit :
        PySlice(get_object_ids([fault |-> FALSE, status |-> 200,
                                body |-> "id_list", ids |-> l]).ids, n)
          = FirstEntries(l, n)

\* C21: for a limit >= 0 the retained ids are the first min(limit, length)
\* entries of the listing, in the remote's order, and exactly one detail
\* fetch is launched for each retained entry.
C21_Truncation ==
    /\ SliceIsPrefix
    /\ \A d \in Departments :
          dept_pc[d] \in {"gather", "returned"} =>
              /\ Len(object_ids[d]) = Min(limit, listed[d])
              /\ Launched(d) = {DetailTask(d, i) : i \in 1..Len(object_ids[d])}

\* C21 witness: of a listing of two ids under a limit of one, the first id,
\* which is not the smallest, is retained and one fetch is launched.
C21_Witness ==
    \E d \in Departments :
        /\ limit = 1
        /\ listed[d] = 2
        /\ object_ids[d] = <<2>>
        /\ Launched(d) = {DetailTask(d, 1)}

\* the listing fetch and the detail fetches of department d
FetchesOf(d) == {t \in Tasks : t[1] = d}

\* C22: when fetch_department_objects has returned, every fetch it launched
\* has its answer and has released its slot: none of the department's
\* fetches is waiting, sleeping or in its request.
C22_NoPartialCommit ==
    \A d \in Departments :
        dept_pc[d] = "returned" =>
            /\ \A t \in FetchesOf(d) : ~Pending(t)
            /\ \A t \in Launched(d) \cup {ListingTask(d)} :
                  pc[t] = "done" /\ response[t] # NoResponse
            /\ main_pc = "gather" =>
                  SlotsTaken = Cardinality({t \in Tasks : t[1] # d /\ t \in InGate})

\* C22 witness: a department has returned after two detail fetches, the
\* first found and the second absent.
C22_Witness ==
    \E d \in Departments :
        /\ dept_pc[d] = "returned"
        /\ Len(object_ids[d]) = 2
        /\ Succeeded(response[DetailTask(d, 1)])
        /\ Failed(response[DetailTask(d, 2)])
        /\ Len(objects_data[d]) = 1

\* C23: a detail fetch of a department exists, and so can take a slot of the
\* gate, only after the department's listing fetch has its answer and has
\* released its slot.
C23_ListingBeforeDetails ==
    \A d \in Departments : \A t \in DetailTasksOf(d) :
        pc[t] # "none" =>
            /\ pc[ListingTask(d)] = "done"
            /\ response[ListingTask(d)] # NoResponse
            /\ ListingTask(d) \notin InGate

\* C23 witness: a detail fetch of one department holds a slot, after its
\* listing, while the listing fetch of the other department is still pending.
C23_Witness ==
    \E d, e \in Departments : \E t \in DetailTasksOf(d) :
        /\ d # e
        /\ Holding(t)
        /\ pc[ListingTask(d)] = "done"
        /\ Pending(ListingTask(e))

\* C24: the detail fetches of a department are all launched together, and a
\* launched fetch waits for nothing but the gate: whenever the semaphore has
\* a free slot, every waiting fetch can take it, whatever its siblings do.
C24_TrueFanOut ==
    /\ \A d \in Departments :
          Launched(d) # {} =>
              Launched(d) = {DetailTask(d, i) : i \in 1..Len(object_ids[d])}
    /\ \A t \in Tasks :
          (pc[t] = "waiting" /\ ~SemaphoreLocked) => ENABLED Acquire(t)

\* C24 witness: two detail fetches of the same department hold slots at once.
C24_Witness ==
    \E d \in Departments :
        /\ Holding(DetailTask(d, 1))
        /\ Holding(DetailTask(d, 2))
        /\ max_concurrent >= 2

\* C25: when fetch_all_departments returns or raises, every fetch that was
\* launched has run to completion; none is left pending and none is ever
\* cancelled.
C25_RunToCompletion ==
    /\ main_pc # "gather" => \A t \in Tasks : pc[t] \in {"none", "done"}
    /\ \A t \in Tasks : pc[t] # "cancelled"

\* C26: when the listing fetch of every department has failed (a transport
\* error or a non-success status), no detail fetch is attempted and
\* fetch_all_departments does not raise and returns no record.
C26_WorstOutcomeZeroRecords ==
    (\A d \in Departments :
        pc[ListingTask(d)] = "done" /\ Failed(response[ListingTask(d)])) =>
            /\ \A d \in Departments : Launched(d) = {} /\ dept_pc[d] = "returned"
            /\ main_pc \in {"gather", "returned"}
            /\ all_objects = <<>>

\* C27: for every input sequence, the output of clean_and_validate_data has
\* no two records with the same met_object_id, and the record kept for each
\* id is the one that came first in the input.
C27_DedupKeepsFirst ==
    clean_pc = "returned" =>
        /\ \A j, k \in 1..Len(df) :
              j # k => df[j].met_object_id # df[k].met_object_id
        /\ \A k \in 1..Len(df) :
              /\ df[k].index \in 1..Len(raw_df)
              /\ raw_df[df[k].index] = df[k]
              /\ \A i \in 1..(df[k].index - 1) :
                    raw_df[i].met_object_id # df[k].met_object_id

\* an input with the same id in its first and last row, and another id between
C27_Witness ==
    /\ clean_pc = "returned"
    /\ Len(raw_df) = 3
    /\ raw_df[1].met_object_id = "1"
    /\ raw_df[2].met_object_id = "2"
    /\ raw_df[3].met_object_id = "1"
    /\ df = <<raw_df[1], raw_df[2]>>

\* the changes the operations of the body make when all of them run
ChangesOfBody == {ChangeOf(k) : k \in {j \in 1..Len(body) : body[j] = "change"}}

\* C29: get_db_session commits when the with-body exits normally, rolls
\* back and re-raises when the body or the commit raises, and closes the
\* session on every exit path; on an exception no change made in the body is
\* committed.
C29_SessionLifecycle ==
    /\ with_pc = "returned" =>
          /\ body_pc > Len(body)
          /\ committed = ChangesOfBody
          /\ session.rollbacks = 0
          /\ ~raising
    /\ with_pc = "raised" =>
          /\ committed = {}
          /\ session.rollbacks = 1
          /\ raising
    /\ raising => with_pc \in {"except", "finally", "raised"}
    /\ with_pc \in {"returned", "raised"} => session.state = "closed"
    /\ with_pc \in {"body", "commit", "except", "finally"} => session.state = "open"

\* a body that changed a row and then raised: rolled back, closed, nothing kept
C29_Witness ==
    /\ with_pc = "raised"
    /\ body = <<"change", "query">>
    /\ body_pc = 2
    /\ session.state = "closed"
    /\ session.rollbacks = 1
    /\ committed = {}

\* save_to_database has filled its two lists and is still in the with-body
PastPrepare == with_pc = "body" /\ save_pc \in {"insert", "lookup", "update", "commit"}

\* how many records of a list were prepared from the row of index label k
RecordsOf(records, k) == Cardinality({j \in 1..Len(records) : records[j].index = k})

\* a list longer than two batches
TwoBatchesAndOne == [i \in 1..(2 * batch_size + 1) |-> i]

\* its batches are 500, 500 and 1 long and make up the list
BatchesOfLongList ==
    LET first == PySliceRange(TwoBatchesAndOne, 0, batch_size)
        second == PySliceRange(TwoBatchesAndOne, batch_size, 2 * batch_size)
        third == PySliceRange(TwoBatchesAndOne, 2 * batch_size, 3 * batch_size)
    IN  /\ Len(first) = 500 /\ Len(second) = 500 /\ Len(third) = 1
        /\ first \o second \o third = TwoBatchesAndOne

\* C28: save_to_database puts every successfully prepared row in exactly one
\* of the insert list (its met_object_id is not among the ids already
\* stored) or the update list (its met_object_id is already stored), never
\* both and never neither, and processes each list in batches of at most 500
\* rows.
C28_UpsertSplitAndBatches ==
    /\ PastPrepare =>
          /\ \A k \in 1..Len(df) :
                LET inserts == RecordsOf(new_records, df[k].index)
                    updates == RecordsOf(update_records, df[k].index)
                IN  IF df[k].prepares
                    THEN /\ inserts + updates = 1
                         /\ inserts = 1 <=> df[k].met_object_id \notin stored
                         /\ updates = 1 <=> df[k].met_object_id \in stored
                    ELSE inserts + updates = 0
          /\ Len(new_records) + Len(update_records)
                = Cardinality({k \in 1..Len(df) : df[k].prepares})
    /\ Len(batch) <= 500
    /\ save_pc \in {"insert", "update"} => batch_i % batch_size = 0
    /\ BatchesOfLongList

\* 502 rows of which one is stored: 501 inserted in two batches, one updated
C28_Witness ==
    /\ df = BigFrame
    /\ stored = {1}
    /\ save_pc = "commit"
    /\ Len(new_records) = batch_size + 1
    /\ Len(update_records) = 1
    /\ update_records[1].met_object_id = 1
    /\ stats.inserted = batch_size + 1
    /\ stats.updated = 1
    /\ Len(batch) = 1

\* C30: the records fetch_department_objects returns appear in the order of
\* the retained listing ids, restricted to the ids whose detail fetch
\* succeeded, whatever the order in which the detail fetches completed.
C30_WithinPartitionOrder ==
    \A d \in Departments :
        dept_pc[d] = "returned" =>
            /\ objects_data[d] = FoundFrom(d, 1)
            /\ \A j, k \in 1..Len(objects_data[d]) :
                  j < k =>
                    \E a, b \in 1..Len(object_ids[d]) :
                        /\ a < b
                        /\ object_ids[d][a] = objects_data[d][j].met_object_id
                        /\ object_ids[d][b] = objects_data[d][k].met_object_id

\* the second detail fetch completed first and its record comes second
C30_Witness ==
    \E d \in Departments :
        /\ dept_pc[d] = "returned"
        /\ object_ids[d] = <<2, 1>>
        /\ detail_order[d] = <<2, 1>>
        /\ objects_data[d] = <<[met_object_id |-> 2], [met_object_id |-> 1]>>

\* C31: a caller takes its semaphore slot before the spacing sleep of
\* acquire(): the requests in flight plus the callers sleeping in acquire()
\* never exceed the maximum concurrency, and neither do the requests in
\* flight alone.
C31_PermitHeldWhileSleeping ==
    /\ Cardinality(RequestsInFlight) + Cardinality({t \in Tasks : Sleeping(t)})
          <= max_concurrent
    /\ Cardinality(RequestsInFlight) <= max_concurrent
    /\ Cardinality({t \in Tasks : Sleeping(t)}) <= SlotsTaken

\* a request in flight and a caller in its spacing sleep fill a gate of two
C31_Witness ==
    \E t, u \in Tasks :
        /\ t \in RequestsInFlight
        /\ Sleeping(u)
        /\ sleep_left[u] > 0
        /\ max_concurrent = 2
        /\ sem_value = 0

\* C32: the release() calls of a run are never more than its completed
\* semaphore acquisitions: the gate's free-slot count stays in
\* 0..maximum concurrency, and together with the slots in use it never
\* exceeds the value the gate was built with.
C32_NoOverRelease ==
    /\ sem_value \in 0..max_concurrent
    /\ sem_value + Cardinality(InGate) <= max_concurrent

\* a run that raised: a request cancelled in flight gave its slot back in its
\* finally clause, and the gate is full again, not more
C32_Witness ==
    /\ main_pc = "closed"
    /\ grants > Cardinality({t \in Tasks : pc[t] = "done"})
    /\ sem_value = max_concurrent
    /\ max_concurrent = 2

\* C33: with a limit of 0 each department still issues its one listing
\* request, acquiring and releasing one permit, launches no detail fetch, and
\* contributes an empty record sequence.
C33_CapZero ==
    limit = 0 =>
        /\ \A d \in Departments :
              /\ Launched(d) = {}
              /\ dept_pc[d] \in {"listing", "returned"}
              /\ dept_pc[d] = "returned" =>
                    /\ pc[ListingTask(d)] = "done"
                    /\ response[ListingTask(d)] # NoResponse
                    /\ objects_data[d] = <<>>
        /\ main_pc \in {"gather", "returned"}
        /\ main_pc = "returned" =>
              /\ grants = Len(department_ids)
              /\ sem_value = max_concurrent
              /\ all_objects = <<>>

\* a detail request answered with a success status and a body json() cannot parse
Unparseable200(r) == ~r.fault /\ r.status = 200 /\ r.body = "unparseable"

\* C34: when a detail request gets a success status but its body cannot be
\* parsed, get_object_details returns None, releases its permit and raises
\* nothing; the sibling fetches and the department's result are unaffected.
C34_MalformedDetailAbsorbed ==
    \A d \in Departments : \A i \in 1..Len(object_ids[d]) :
        (pc[DetailTask(d, i)] = "done" /\ Unparseable200(response[DetailTask(d, i)])) =>
            /\ DetailResults(d)[i] = "None"
            /\ DetailTask(d, i) \notin InGate
            /\ main_pc = "gather" => sem_value = max_concurrent - Cardinality(InGate)
            /\ dept_pc[d] = "raised" =>
                  \E j \in 1..Len(object_ids[d]) : j # i /\ DetailResults(d)[j] = "array"
            /\ dept_pc[d] = "returned" => objects_data[d] = FoundFrom(d, 1)

\* the first of two detail fetches got an unparseable body, the second a
\* record: the department returned the second's record
C34_Witness ==
    \E d \in Departments :
        /\ dept_pc[d] = "returned"
        /\ Len(object_ids[d]) = 2
        /\ Unparseable200(response[DetailTask(d, 1)])
        /\ Succeeded(response[DetailTask(d, 2)])
        /\ objects_data[d] = <<[met_object_id |-> object_ids[d][2]]>>

\* the detail fetches the departments 1..n call for: min(limit, listing length) each
RECURSIVE RetainedUpTo(_)
RetainedUpTo(n) ==
    IF n = 0 THEN 0 ELSE RetainedUpTo(n - 1) + Min(limit, listed[n])

\* C35: in a run that completes, the permits granted, which are the remote
\* requests issued, number exactly N + the sum over the departments of
\* min(limit, length of the department's returned listing), N being the
\* number of departments.
C35_RequestCount ==
    main_pc = "returned" =>
        /\ grants = Len(department_ids) + RetainedUpTo(Len(department_ids))
        /\ Cardinality({t \in Tasks : response[t] # NoResponse}) = grants

\* two departments under a limit of 1, listings of two ids and of none: 2 + 1 requests
C35_Witness ==
    /\ main_pc = "returned"
    /\ Len(department_ids) = 2
    /\ limit = 1
    /\ listed[1] = 2
    /\ listed[2] = 0
    /\ grants = 3

\* the rows an operation of the kind has made durable
CommittedRows(operation_type) == {c \in committed : c.op = operation_type}

\* C36: on every return of save_to_database, the return from the outer
\* handler after a late failure included, inserted + updated + errors equals
\* the number of input rows, and inserted and updated count only rows that
\* were committed.
C36_SaveStatistics ==
    save_pc = "returned" =>
        /\ stats.inserted + stats.updated + stats.errors = Len(df)
        /\ stats.inserted <= Cardinality(CommittedRows("insert"))
        /\ stats.updated <= Cardinality(CommittedRows("update"))

\* C37: QA verdict consistency: in every QAResponse produced by
\* _parse_qa_response, qa_status is PASSED only if factual_accuracy,
\* museum_tone, readability and no_problematic_language are all true, and
\* qa_status PASSED implies needs_human_review is false.
C37_VerdictConsistency ==
    (qa_pc = "returned" /\ qa_response.qa_status = "passed") =>
        /\ qa_response.factual_accuracy
        /\ qa_response.museum_tone
        /\ qa_response.readability
        /\ qa_response.no_problematic_language
        /\ ~qa_response.needs_human_review

====
